---- MODULE Spec2Model ----
(***************************************************************************)
(* Model of src/display/components/table.rs of bandwhich: the ranking of   *)
(* the monitored entities, the three table factories with their breakpoint *)
(* tables, the layout resolution and column projection done by             *)
(* Table::render, and truncate_middle.                                     *)
(*                                                                         *)
(* Texts are sequences of bytes (0..255), as Rust's &str is indexed by     *)
(* byte offset.  Rust indices are 0-based and TLA+ sequences 1-based: the  *)
(* Rust slice &row[a..b] is SubSeq(row, a + 1, b), row[i] is row[i + 1].   *)
(*                                                                         *)
(* The variable build is the Cargo profile: with "debug" the integer       *)
(* overflow checks are compiled in and an overflowing +, - panics; with    *)
(* "release" the same operation wraps around.                              *)
(***************************************************************************)
EXTENDS Integers, Sequences, FiniteSets, TLC

VARIABLES build, text_in, width_in, truncated, list, sorted, state, table, frame

vars == <<build, text_in, width_in, truncated, list, sorted, state, table, frame>>

(* ---------------------------------------------------------------- bounds *)

\* Texts given to truncate_middle are made of at most MaxTokens tokens.
MaxTokens == 5
\* max_length given to truncate_middle ranges over 0..MaxTruncWidth.
MaxTruncWidth == 13
\* Lists given to sort_by_bandwidth have at most MaxEntries entries,
MaxEntries == 4
\* each with byte counters in 0..MaxBytes.
MaxBytes == 2
\* Each collection of the monitoring snapshot has at most MaxRows entries.
MaxRows == 2
\* rect.width given to render ranges over 0..MaxWidth.
MaxWidth == 150

(* ------------------------------------------------------- machine integers *)

U16Modulus == 2 ^ 16

Builds == {"debug", "release"}

\* a - b on u16: the wrapped value, and whether it went below zero.
u16_sub(a, b) == [value |-> (a - b) % U16Modulus, overflow |-> a < b]

RECURSIVE SumSeq(_)
SumSeq(s) == IF s = <<>> THEN 0 ELSE s[1] + SumSeq(Tail(s))

\* widths.iter().sum() on u16.
u16_sum(s) == [value |-> SumSeq(s) % U16Modulus, overflow |-> SumSeq(s) >= U16Modulus]

(* ------------------------------------------------------------------ texts *)

\* "[..]"
Marker == <<91, 46, 46, 93>>

\* str::is_char_boundary(i), i a 0-based byte offset: the ends of the text,
\* or a byte that is not a UTF-8 continuation byte (0x80..0xBF).
is_char_boundary(text, i) ==
    \/ i = 0
    \/ i = Len(text)
    \/ /\ i < Len(text)
       /\ ~(text[i + 1] >= 128 /\ text[i + 1] < 192)

Panic(why) == [status |-> "panic", fault |-> why, text |-> <<>>]
Returned(text) == [status |-> "ok", fault |-> "none", text |-> text]

\* &text[from..to]: panics unless from <= to <= len and both are character
\* boundaries.
str_slice(text, from, to) ==
    IF from > to \/ to > Len(text) THEN Panic("slice_out_of_range")
    ELSE IF ~is_char_boundary(text, from) \/ ~is_char_boundary(text, to)
         THEN Panic("slice_not_char_boundary")
    ELSE Returned(SubSeq(text, from + 1, to))

\* (max_length as usize / 2) - 2 on usize.  When the half is below 2 the
\* subtraction goes below zero: a debug build panics there; a release build
\* wraps to a value of at least 2^32 - 2, which is past the end of any text,
\* so the slice &row[0..that] panics.
first_slice_end(max_length, b) ==
    IF max_length \div 2 < 2
    THEN [fault |-> IF b = "debug" THEN "subtract_overflow" ELSE "slice_out_of_range",
          value |-> 0]
    ELSE [fault |-> "none", value |-> (max_length \div 2) - 2]

truncate_middle(row, max_length, b) ==
    IF (Len(row) % U16Modulus) > max_length
    THEN LET cut == first_slice_end(max_length, b)
             first_slice == str_slice(row, 0, cut.value)
             second_slice == str_slice(row, Len(row) - (max_length \div 2) + 2, Len(row))
         IN  IF cut.fault # "none" THEN Panic(cut.fault)
             ELSE IF first_slice.status # "ok" THEN first_slice
             ELSE IF second_slice.status # "ok" THEN second_slice
             ELSE Returned(first_slice.text \o Marker \o second_slice.text)
    ELSE Returned(row)

(* ---------------------------------------------------------------- ranking *)

\* The larger of the two counters, as the comparator's if/else picks it.
highest(a) == IF a.down > a.up THEN a.down ELSE a.up

\* Faulty variant of compare: the operands of cmp swapped (ascending order).
compare_ascending(a, b) ==
    IF highest(a) < highest(b) THEN "Less"
    ELSE IF highest(a) > highest(b) THEN "Greater"
    ELSE "Equal"

\* The closure given to sort_by: b_highest.cmp(&a_highest).
compare(a, b) ==
    IF highest(b) < highest(a) THEN "Less"
    ELSE IF highest(b) > highest(a) THEN "Greater"
    ELSE "Equal"

\* x put into an ordered prefix, behind every entry it is not Less than:
\* slice::sort_by is a stable sort.
RECURSIVE insert_sorted(_, _)
insert_sorted(prefix, x) ==
    IF prefix = <<>> THEN <<x>>
    ELSE IF compare(x, prefix[1]) = "Less" THEN <<x>> \o prefix
    ELSE <<prefix[1]>> \o insert_sorted(Tail(prefix), x)

RECURSIVE sort_by_bandwidth(_)
sort_by_bandwidth(l) ==
    IF l = <<>> THEN <<>>
    ELSE insert_sorted(sort_by_bandwidth(SubSeq(l, 1, Len(l) - 1)), l[Len(l)])

(* -------------------------------------------------------------- factories *)

\* "{} / {}" of the two DisplayBandwidth texts.  The unit scaling of
\* DisplayBandwidth is done outside this file: an entry carries the two
\* texts it yields as up_text and down_text.
display_upload_and_download(bandwidth) ==
    bandwidth.up_text \o <<32, 47, 32>> \o bandwidth.down_text

ColumnData(count, widths) == [column_count |-> count, column_widths |-> widths]

as_u16(column_count) ==
    CASE column_count = "Two" -> 2
      [] column_count = "Three" -> 3
      [] column_count = "Four" -> 4

connections_breakpoints ==
    (0 :> ColumnData("Two", <<20, 23>>))
    @@ (70 :> ColumnData("Three", <<30, 12, 23>>))
    @@ (100 :> ColumnData("Three", <<60, 12, 23>>))
    @@ (140 :> ColumnData("Three", <<100, 12, 23>>))

processes_breakpoints ==
    (0 :> ColumnData("Two", <<12, 23>>))
    @@ (50 :> ColumnData("Three", <<12, 12, 23>>))
    @@ (100 :> ColumnData("Three", <<40, 12, 23>>))
    @@ (140 :> ColumnData("Three", <<40, 12, 23>>))

\* Faulty variant of remote_addresses_breakpoints: the processes table's, copied.
remote_addresses_breakpoints_copied == processes_breakpoints

remote_addresses_breakpoints ==
    (0 :> ColumnData("Two", <<12, 23>>))
    @@ (70 :> ColumnData("Three", <<30, 12, 23>>))
    @@ (100 :> ColumnData("Three", <<60, 12, 23>>))
    @@ (140 :> ColumnData("Three", <<100, 12, 23>>))

\* The rows of a factory: the ranked entries, each formatted as three cells.
\* key_text is what display_connection_string, to_string or
\* display_ip_or_host yields for the entry's key, info_text what
\* process_name.to_string() or connection_count.to_string() yields.
formatted_rows(entries) ==
    LET ranked == sort_by_bandwidth(entries)
    IN  [i \in 1..Len(ranked) |->
            <<ranked[i].key_text, ranked[i].info_text,
              display_upload_and_download(ranked[i])>>]

create_connections_table(s) ==
    [title |-> "Utilization by connection",
     column_names |-> <<"Connection", "Process", "Rate Up / Down">>,
     rows |-> formatted_rows(s.connections),
     breakpoints |-> connections_breakpoints]

create_processes_table(s) ==
    [title |-> "Utilization by process name",
     column_names |-> <<"Process", "Connections", "Rate Up / Down">>,
     rows |-> formatted_rows(s.processes),
     breakpoints |-> processes_breakpoints]

create_remote_addresses_table(s) ==
    [title |-> "Utilization by remote address",
     column_names |-> <<"Remote Address", "Connections", "Rate Up / Down">>,
     rows |-> formatted_rows(s.remote_addresses),
     breakpoints |-> remote_addresses_breakpoints]

(* ----------------------------------------------------------------- render *)

\* BTreeMap::iter: the keys in ascending order.
RECURSIVE ascending_keys(_)
ascending_keys(keys) ==
    IF keys = {} THEN <<>>
    ELSE LET least == CHOOSE k \in keys : \A o \in keys : k <= o
         IN  <<least>> \o ascending_keys(keys \ {least})

\* Faulty variant of breakpoint_matches: <= for <.
breakpoint_matches_inclusive(width_breakpoint, rect_width) ==
    width_breakpoint <= rect_width

\* *width_breakpoint < rect.width
breakpoint_matches(width_breakpoint, rect_width) ==
    width_breakpoint < rect_width

\* The locals of render before the loop.
initial_layout ==
    [column_spacing |-> 0, widths |-> <<>>, column_count |-> "Three", fault |-> "none"]

\* The body of the loop for one breakpoint.  A panic ends the loop: the
\* record keeps the locals as they were when it happened.
render_step(acc, width_breakpoint, column_data, rect_width, b) ==
    IF acc.fault # "none" \/ ~breakpoint_matches(width_breakpoint, rect_width) THEN acc
    ELSE LET widths == column_data.column_widths
             column_count == column_data.column_count
             total_column_width == u16_sum(widths)
             room == u16_sub(total_column_width.value, as_u16(column_count))
             left == u16_sub(rect_width, total_column_width.value)
             selected == [acc EXCEPT !.widths = widths, !.column_count = column_count]
         IN  IF b = "debug" /\ total_column_width.overflow
             THEN [selected EXCEPT !.fault = "add_overflow"]
             ELSE IF b = "debug" /\ room.overflow
             THEN [selected EXCEPT !.fault = "subtract_overflow"]
             ELSE IF rect_width < room.value
             THEN [selected EXCEPT !.column_spacing = 0]
             ELSE IF b = "debug" /\ left.overflow
             THEN [selected EXCEPT !.fault = "subtract_overflow"]
             ELSE [selected EXCEPT
                      !.column_spacing = left.value \div as_u16(column_count)]

RECURSIVE render_loop(_, _, _, _, _)
render_loop(acc, keys, breakpoints, rect_width, b) ==
    IF keys = <<>> THEN acc
    ELSE render_loop(render_step(acc, keys[1], breakpoints[keys[1]], rect_width, b),
                     Tail(keys), breakpoints, rect_width, b)

\* The layout resolution of render: the locals after the loop.
render_layout(breakpoints, rect_width, b) ==
    render_loop(initial_layout, ascending_keys(DOMAIN breakpoints), breakpoints,
                rect_width, b)

\* Faulty variant of column_indices: with Two the last column is lost.
column_indices_lose_last(column_count) ==
    CASE column_count = "Two" -> <<0, 1>>
      [] column_count = "Three" -> <<0, 1, 2>>
      [] column_count = "Four" -> <<0, 1, 2, 3>>

\* The 0-based indices of the logical columns shown, the same in the two
\* matches on column_count (the header and the rows).
column_indices(column_count) ==
    CASE column_count = "Two" -> <<0, 2>>
      [] column_count = "Three" -> <<0, 1, 2>>
      [] column_count = "Four" -> <<0, 1, 2, 3>>

Least(S) == CHOOSE x \in S : \A y \in S : x <= y

\* The header: self.column_names[i] for each index shown.
project_names(column_names, column_count) ==
    LET shown == column_indices(column_count)
    IN  IF \E j \in 1..Len(shown) : shown[j] >= Len(column_names)
        THEN [fault |-> "index_out_of_bounds", names |-> <<>>]
        ELSE [fault |-> "none",
              names |-> [j \in 1..Len(shown) |-> column_names[shown[j] + 1]]]

\* One row of the body: truncate_middle(&row[i], widths[j]) for the j-th
\* index shown, i.  An index past the end of row or widths panics, and so
\* does a truncation that panics; the first cell that does decides.
project_row(cells, column_count, widths, b) ==
    LET shown == column_indices(column_count)
        cell(j) == IF shown[j] >= Len(cells) \/ j - 1 >= Len(widths)
                   THEN Panic("index_out_of_bounds")
                   ELSE truncate_middle(cells[shown[j] + 1], widths[j], b)
        bad == {j \in 1..Len(shown) : cell(j).status # "ok"}
    IN  IF bad = {}
        THEN [fault |-> "none", cells |-> [j \in 1..Len(shown) |-> cell(j).text]]
        ELSE [fault |-> cell(Least(bad)).fault, cells |-> <<>>]

\* Table::render on a region rect_width wide.  The rows are a lazy iterator
\* that the table widget pulls from as far as the region's height allows:
\* drawn is how many rows it pulls.  What was handed to the widget is the
\* frame: status "ok", or "panic" with the fault that ended the call.
render(t, rect_width, drawn, b) ==
    LET layout == render_layout(t.breakpoints, rect_width, b)
        header == project_names(t.column_names, layout.column_count)
        body == [i \in 1..drawn |->
                    project_row(t.rows[i], layout.column_count, layout.widths, b)]
        bad == {i \in 1..drawn : body[i].fault # "none"}
        fault == IF layout.fault # "none" THEN layout.fault
                 ELSE IF header.fault # "none" THEN header.fault
                 ELSE IF bad # {} THEN body[Least(bad)].fault
                 ELSE "none"
    IN  [rect_width |-> rect_width,
         drawn |-> drawn,
         status |-> IF fault = "none" THEN "ok" ELSE "panic",
         fault |-> fault,
         column_count |-> layout.column_count,
         widths |-> layout.widths,
         column_spacing |-> layout.column_spacing,
         column_names |-> IF fault = "none" THEN header.names ELSE <<>>,
         rows |-> IF fault = "none" THEN [i \in 1..drawn |-> body[i].cells] ELSE <<>>]

(* ----------------------------------------------------------------- inputs *)

\* "1234567890abcdef"
Digits16 == <<49, 50, 51, 52, 53, 54, 55, 56, 57, 48, 97, 98, 99, 100, 101, 102>>

\* The pieces the texts given to truncate_middle are made of: "a", "b",
\* the two-byte character U+00E9 and the marker itself.
Tokens == {<<97>>, <<98>>, <<195, 169>>, Marker}

RECURSIVE Flatten(_)
Flatten(pieces) == IF pieces = <<>> THEN <<>> ELSE pieces[1] \o Flatten(Tail(pieces))

Texts ==
    {Flatten(p) : p \in UNION {[1..n -> Tokens] : n \in 0..MaxTokens}} \cup {Digits16}

\* A list given to sort_by_bandwidth: the entries of a map in the order its
\* iterator yields them, the i-th with key i and the counters c[i].
EntryList(c) == [i \in DOMAIN c |-> [key |-> i, up |-> c[i][1], down |-> c[i][2]]]

Counters == (0..MaxBytes) \X (0..MaxBytes)

\* Two monitored connections with the texts the formatters yield for them.
\* The first: a 32-byte ASCII connection string, the process
\* "1234567890abcdef", a 32-byte ASCII host name, 100 bytes up ("100Bps") and
\* 50 down ("50Bps").  The second: "a" and thirteen U+00E9 (27 bytes) as
\* connection string and as process name, the host "ff", 1500 bytes up
\* ("1.50KBps") and 900000 down ("900.00KBps").
ConnectionPool ==
    {[connection_text |-> Digits16 \o Digits16,
      process_name |-> Digits16,
      remote_text |-> Digits16 \o Digits16,
      up |-> 100, up_text |-> <<49, 48, 48, 66, 112, 115>>,
      down |-> 50, down_text |-> <<53, 48, 66, 112, 115>>],
     [connection_text |-> <<97>> \o Flatten([i \in 1..13 |-> <<195, 169>>]),
      process_name |-> <<97>> \o Flatten([i \in 1..13 |-> <<195, 169>>]),
      remote_text |-> <<102, 102>>,
      up |-> 1500, up_text |-> <<49, 46, 53, 48, 75, 66, 112, 115>>,
      down |-> 900000, down_text |-> <<57, 48, 48, 46, 48, 48, 75, 66, 112, 115>>]}

\* The entry of a connection in each of the three maps.  Every connection
\* has a process and a remote address of its own, so the entry of its
\* process and of its remote address counts one connection ("1") and carries
\* the connection's counters.
Bandwidth(c, key_text, info_text) ==
    [key_text |-> key_text, info_text |-> info_text,
     up |-> c.up, up_text |-> c.up_text, down |-> c.down, down_text |-> c.down_text]
ConnectionEntry(c) == Bandwidth(c, c.connection_text, c.process_name)
ProcessEntry(c) == Bandwidth(c, c.process_name, <<49>>)
RemoteAddressEntry(c) == Bandwidth(c, c.remote_text, <<49>>)

\* The connections of a snapshot in the order a map's iterator yields them:
\* distinct connections, any order.
ConnectionLists ==
    UNION {{l \in [1..n -> ConnectionPool] : \A i, j \in 1..n : i # j => l[i] # l[j]} :
              n \in 0..MaxRows}

\* UIState: the three collections the factories read, each map iterated in
\* an order of its own.
Snapshots ==
    {[connections |-> [i \in 1..Len(c) |-> ConnectionEntry(c[i])],
      processes |-> [i \in 1..Len(p) |-> ProcessEntry(p[i])],
      remote_addresses |-> [i \in 1..Len(r) |-> RemoteAddressEntry(r[i])]] :
        <<c, p, r>> \in {t \in ConnectionLists \X ConnectionLists \X ConnectionLists :
                            /\ {t[1][i] : i \in 1..Len(t[1])} = {t[2][i] : i \in 1..Len(t[2])}
                            /\ {t[1][i] : i \in 1..Len(t[1])} = {t[3][i] : i \in 1..Len(t[3])}}}

(* ------------------------------------------------------- the state machine *)

NotRun == [status |-> "none", fault |-> "none", text |-> <<>>]
NotSorted == [done |-> FALSE, list |-> <<>>]
NoSnapshot == [connections |-> <<>>, processes |-> <<>>, remote_addresses |-> <<>>]
NoTable == [title |-> "", column_names |-> <<>>, rows |-> <<>>, breakpoints |-> <<>>]
NoFrame ==
    [rect_width |-> 0, drawn |-> 0, status |-> "none", fault |-> "none",
     column_count |-> "Three", widths |-> <<>>, column_spacing |-> 0,
     column_names |-> <<>>, rows |-> <<>>]

TruncateIdle == text_in = <<>> /\ width_in = 0 /\ truncated = NotRun
SortIdle == list = <<>> /\ sorted = NotSorted
TableIdle == state = NoSnapshot /\ table = NoTable /\ frame = NoFrame

\* The dashboard: a snapshot of the monitoring state, no table built yet.
Init ==
    /\ build \in Builds
    /\ state \in Snapshots
    /\ table = NoTable
    /\ frame = NoFrame
    /\ TruncateIdle
    /\ SortIdle

CreateConnectionsTable ==
    /\ table' = create_connections_table(state)
    /\ frame' = NoFrame
    /\ UNCHANGED <<build, text_in, width_in, truncated, list, sorted, state>>

CreateProcessesTable ==
    /\ table' = create_processes_table(state)
    /\ frame' = NoFrame
    /\ UNCHANGED <<build, text_in, width_in, truncated, list, sorted, state>>

CreateRemoteAddressesTable ==
    /\ table' = create_remote_addresses_table(state)
    /\ frame' = NoFrame
    /\ UNCHANGED <<build, text_in, width_in, truncated, list, sorted, state>>

\* A table is built afresh for every redraw and rendered once.
Render ==
    /\ table # NoTable
    /\ frame = NoFrame
    /\ \E rect_width \in 0..MaxWidth, drawn \in 0..Len(table.rows) :
          frame' = render(table, rect_width, drawn, build)
    /\ UNCHANGED <<build, text_in, width_in, truncated, list, sorted, state, table>>

Next ==
    \/ CreateConnectionsTable
    \/ CreateProcessesTable
    \/ CreateRemoteAddressesTable
    \/ Render

Spec == Init /\ [][Next]_vars

\* truncate_middle on its own, over every text and width of the bounds.
InitTruncate ==
    /\ build \in Builds
    /\ text_in \in Texts
    /\ width_in \in 0..MaxTruncWidth
    /\ truncated = NotRun
    /\ SortIdle
    /\ TableIdle

Truncate ==
    /\ truncated = NotRun
    /\ truncated' = truncate_middle(text_in, width_in, build)
    /\ UNCHANGED <<build, text_in, width_in, list, sorted, state, table, frame>>

NextTruncate == Truncate

SpecTruncate == InitTruncate /\ [][NextTruncate]_vars

\* sort_by_bandwidth on its own, over every list of the bounds.
\* The comparator has no arithmetic: the profile makes no difference to it.
InitSort ==
    /\ build = "release"
    /\ \E n \in 0..MaxEntries : \E c \in [1..n -> Counters] : list = EntryList(c)
    /\ sorted = NotSorted
    /\ TruncateIdle
    /\ TableIdle

Sort ==
    /\ ~sorted.done
    /\ sorted' = [done |-> TRUE, list |-> sort_by_bandwidth(list)]
    /\ UNCHANGED <<build, text_in, width_in, truncated, list, state, table, frame>>

NextSort == Sort

SpecSort == InitSort /\ [][NextSort]_vars

(* ----------------------------------------------------------------- claims *)

Larger(x, y) == CHOOSE m \in {x, y} : m >= x /\ m >= y
Greatest(S) == CHOOSE x \in S : \A y \in S : x >= y

Rendered == frame.status # "none"
Truncated == truncated.status # "none"
LoopCompleted == Rendered /\ frame.fault \notin {"add_overflow", "subtract_overflow"}

ConnectionsTitle == "Utilization by connection"
RemoteAddressesTitle == "Utilization by remote address"

\* The smallest non-zero breakpoint key of the table built.
FirstStep == Least(DOMAIN table.breakpoints \ {0})

\* How often pattern occurs in text.
Occurrences(pattern, text) ==
    Cardinality({i \in 1..(Len(text) - Len(pattern) + 1) :
                    SubSeq(text, i, i + Len(pattern) - 1) = pattern})

\* The least width whose head and tail, (w / 2) - 2 bytes each, are not empty.
MinimumFloor == 2 * (2 + 1)

\* C1: for every width, 0 included, and every factory table, the layout
\* resolution of render is total and some breakpoint matches: the widths are
\* never the empty default, there are as many widths as columns, the spacing
\* is not negative, and no row indexes past the end of widths.
C1_LayoutTotalAndValid ==
    Rendered =>
        /\ frame.widths # <<>>
        /\ Len(frame.widths) = as_u16(frame.column_count)
        /\ frame.column_spacing >= 0
        /\ frame.fault \notin {"add_overflow", "subtract_overflow", "index_out_of_bounds"}

\* C2: the spacing of the matching breakpoint is 0 when W < total - count and
\* floor((W - total) / count) otherwise, with no u16 subtraction going below
\* zero (no panic, no wrap-around), and it never exceeds W.
C2_SpacingWithoutUnderflow ==
    (Rendered /\ frame.widths # <<>>) =>
        LET total == SumSeq(frame.widths)
            count == as_u16(frame.column_count)
            W == frame.rect_width
        IN  /\ frame.fault # "subtract_overflow"
            /\ total - count >= 0
            /\ W < total - count => frame.column_spacing = 0
            /\ W >= total - count =>
                  /\ W - total >= 0
                  /\ frame.column_spacing = (W - total) \div count
            /\ frame.column_spacing <= W

\* C3: truncate_middle never faults, whatever the width: for every text
\* longer than max_length, the widths below 6 included, it returns a string.
C3_TruncateNeverFaults ==
    (Truncated /\ Len(text_in) > width_in) => truncated.status = "ok"

\* C4: after the loop of render the column count and the widths are those of
\* the breakpoint with the greatest key strictly below the width.  On the
\* connections table, whose keys 0 and 70 hold Two [20, 23] and Three
\* [30, 12, 23]: widths 69 and 70 select Two, width 71 selects Three.
C4_GreatestKeyBelowWidthWins ==
    LoopCompleted =>
        LET W == frame.rect_width
            below == {k \in DOMAIN table.breakpoints : k < W}
        IN  /\ below # {} =>
                  /\ frame.column_count = table.breakpoints[Greatest(below)].column_count
                  /\ frame.widths = table.breakpoints[Greatest(below)].column_widths
            /\ (table.title = ConnectionsTitle /\ W \in {69, 70}) =>
                  frame.column_count = "Two" /\ frame.widths = <<20, 23>>
            /\ (table.title = ConnectionsTitle /\ W = 71) =>
                  frame.column_count = "Three" /\ frame.widths = <<30, 12, 23>>

C4_Witness ==
    /\ frame.status = "ok"
    /\ table.title = ConnectionsTitle
    /\ frame.rect_width = 70
    /\ frame.column_count = "Two"

\* C5: truncate_middle returns the text unchanged when it is no longer than
\* the width; otherwise, for every width from the minimum floor up, it
\* returns a string no longer than the text that holds the marker exactly
\* once, between a head and a tail that are not empty.
C5_TruncateShape ==
    Truncated =>
        /\ Len(text_in) <= width_in => truncated = Returned(text_in)
        /\ (Len(text_in) > width_in /\ width_in >= MinimumFloor) =>
              /\ truncated.status = "ok"
              /\ Len(truncated.text) <= Len(text_in)
              /\ Occurrences(Marker, truncated.text) = 1
              /\ \E h, t \in 1..Len(text_in) :
                    truncated.text = SubSeq(text_in, 1, h) \o Marker
                                     \o SubSeq(text_in, Len(text_in) - t + 1, Len(text_in))

\* C6: for every text longer than max_length truncate_middle returns
\* head, marker, tail, the head the first floor(max_length / 2) - 2 units of
\* the text and the tail its last floor(max_length / 2) - 2 units;
\* "1234567890abcdef" at width 10 gives "123[..]def".
C6_TruncateHeadMarkerTail ==
    (Truncated /\ Len(text_in) > width_in) =>
        LET n == (width_in \div 2) - 2
        IN  /\ truncated.status = "ok"
            /\ n >= 0
            /\ truncated.text = SubSeq(text_in, 1, n) \o Marker
                                \o SubSeq(text_in, Len(text_in) - n + 1, Len(text_in))
            /\ (text_in = Digits16 /\ width_in = 10) =>
                  truncated.text = <<49, 50, 51>> \o Marker \o <<100, 101, 102>>

\* C7: sort_by_bandwidth returns the same entries reordered so that every
\* adjacent pair (a, b) has max(a.up, a.down) >= max(b.up, b.down).
C7_SortedDescendingPermutation ==
    sorted.done =>
        /\ Len(sorted.list) = Len(list)
        /\ {sorted.list[i] : i \in 1..Len(sorted.list)} = {list[i] : i \in 1..Len(list)}
        /\ \A i \in 1..(Len(sorted.list) - 1) :
              Larger(sorted.list[i].up, sorted.list[i].down)
                  >= Larger(sorted.list[i + 1].up, sorted.list[i + 1].down)

C7_Witness ==
    /\ sorted.done
    /\ Len(list) = MaxEntries
    /\ sorted.list # list
    /\ \E i \in 1..Len(list) : list[i].down > list[i].up
    /\ \E i \in 1..Len(list) : list[i].up > list[i].down

\* C8 as stated: the remote-addresses table registers, key by key, the column
\* count and widths of the connections table: 0: Two [20, 23],
\* 70: [30, 12, 23], 100: [60, 12, 23], 140: [100, 12, 23].
C8_RemoteSameAsConnections ==
    table.title = RemoteAddressesTitle =>
        /\ table.breakpoints = create_connections_table(state).breakpoints
        /\ table.breakpoints[0] = ColumnData("Two", <<20, 23>>)

\* C8 amended: the remote-addresses table registers the keys of the
\* connections table, 0, 70, 100 and 140, with the same column counts, and
\* the same widths at 70, 100 and 140 ([30, 12, 23], [60, 12, 23],
\* [100, 12, 23]); at key 0 its two widths are [12, 23] where the connections
\* table has [20, 23].
C8_RemoteBreakpoints ==
    table.title = RemoteAddressesTitle =>
        LET connections == create_connections_table(state).breakpoints
        IN  /\ DOMAIN table.breakpoints = {0, 70, 100, 140}
            /\ DOMAIN connections = DOMAIN table.breakpoints
            /\ \A k \in DOMAIN table.breakpoints :
                  table.breakpoints[k].column_count = connections[k].column_count
            /\ \A k \in {70, 100, 140} : table.breakpoints[k] = connections[k]
            /\ table.breakpoints[70].column_widths = <<30, 12, 23>>
            /\ table.breakpoints[100].column_widths = <<60, 12, 23>>
            /\ table.breakpoints[140].column_widths = <<100, 12, 23>>
            /\ table.breakpoints[0] = ColumnData("Two", <<12, 23>>)
            /\ connections[0] = ColumnData("Two", <<20, 23>>)

C8_Witness ==
    /\ table.title = RemoteAddressesTitle
    /\ frame.status = "ok"
    /\ frame.widths = <<12, 23>>

\* What the layout resolution yields: the count, the widths and the spacing.
Resolved(layout) == <<layout.column_count, layout.widths, layout.column_spacing>>

\* C9: any two widths below the smallest non-zero breakpoint key, width 0
\* included, resolve to the same column count, the same widths and the same
\* spacing.
C9_IdenticalBelowFirstBreakpoint ==
    (Rendered /\ frame.rect_width < FirstStep) =>
        \A W2 \in 0..(FirstStep - 1) :
            Resolved(render_layout(table.breakpoints, W2, build)) = Resolved(frame)

\* C10: whenever the column count is Two, render shows logical columns 0 and
\* 2, never column 1, in the header and in every row alike, cell 0 truncated
\* to widths[0] and cell 2 to widths[1]; the table keeps its three column
\* names and the three cells of every row.
C10_TwoColumnsDropTheMiddle ==
    (frame.status = "ok" /\ frame.column_count = "Two") =>
        /\ frame.column_names = <<table.column_names[1], table.column_names[3]>>
        /\ Len(frame.rows) = frame.drawn
        /\ \A i \in 1..frame.drawn :
              frame.rows[i] =
                  <<truncate_middle(table.rows[i][1], frame.widths[1], build).text,
                    truncate_middle(table.rows[i][3], frame.widths[2], build).text>>
        /\ Len(table.column_names) = 3
        /\ \A i \in 1..Len(table.rows) : Len(table.rows[i]) = 3

C10_Witness ==
    /\ frame.status = "ok"
    /\ frame.column_count = "Two"
    /\ frame.drawn >= 1
    /\ frame.rows[1][1] # table.rows[1][1]
    /\ frame.rows[1][2] = table.rows[1][3]

====
